---- MODULE Spec2Model ----
(***************************************************************************)
(* Model of the photo uploader of the travel-guide application             *)
(* (src/components/PhotoUploader.tsx): the record list `previews`, the     *)
(* handler handleFileChange with its sequential per-file loop, the         *)
(* per-file pipeline processFile, removePhoto and the unmount cleanup.     *)
(*                                                                         *)
(* Every `await` of the source is a position (pc) of the batch that        *)
(* executes it; the code between two awaits runs atomically, as it does on *)
(* the single-threaded event loop.  The outcome of each asynchronous       *)
(* collaborator (ExifReader.load, heic2any, FileReader, fetch, blob) is    *)
(* chosen nondeterministically when the await resumes.                     *)
(*                                                                         *)
(* Specifications: Spec is the uploader under a parent that only takes the *)
(* photos; SpecFile gives it single files of more kinds and more tag sets; *)
(* SpecBytes gives it one file of every content; SpecClock lets the clock  *)
(* advance; SpecChat puts it under GuideCreator (src/unnamed/part_000),    *)
(* whose handlePhotoProcessed runs for each photo; SpecTyping adds the     *)
(* typed messages of handleSendMessage; SpecList keeps the operations on   *)
(* the record list only; SpecGps applies extractGpsFromTags on its own to  *)
(* a bounded space of tag sets.                                            *)
(*                                                                         *)
(* Conventions for JavaScript values: an absent optional string field is   *)
(* "" (error) or "undefined" (hasGps, refs), an absent previewUrl is 0     *)
(* (object URLs are numbered from 1), a gps value is a record whose field  *)
(* `set` tells whether it is defined.  Numbers are exact rationals or NaN. *)
(***************************************************************************)
EXTENDS Integers, Sequences, FiniteSets, TLC

\* ------------------------------------------------------------------ bounds

\* number of handleFileChange invocations (batches) in one run
MaxBatches == 2

\* number of files submitted in one run, over all batches (two files give a
\* batch with a repeated name as well as two overlapping batches)
MaxFiles == 2

\* number of single-file submissions in one run of the file-format model
MaxUploads == 1

\* largest length of the content of a file in the encoding model
MaxBytes == 3

\* number of handleSendMessage invocations in one run
MaxSends == 1

\* largest reading of the clock (milliseconds since the first submission)
MaxNow == 1

\* largest numerator and largest denominator of a GPS rational handed to
\* the extractor on its own
MaxPart == 1

\* ------------------------------------------------------------------ strings

\* The characters of the strings the model uses, so that toLowerCase and
\* endsWith are computed on the characters rather than assumed.
Chars(s) ==
    CASE s = "image/heic" -> <<"i", "m", "a", "g", "e", "/", "h", "e", "i", "c">>
      [] s = "image/jpeg" -> <<"i", "m", "a", "g", "e", "/", "j", "p", "e", "g">>
      [] s = ".heic" -> <<".", "h", "e", "i", "c">>
      [] s = "a.heic" -> <<"a", ".", "h", "e", "i", "c">>
      [] s = "b.jpg" -> <<"b", ".", "j", "p", "g">>
      [] s = "C.HEIC" -> <<"C", ".", "H", "E", "I", "C">>
      [] s = "d.jpg" -> <<"d", ".", "j", "p", "g">>
      [] s = "e.heic.jpg" -> <<"e", ".", "h", "e", "i", "c", ".", "j", "p", "g">>
      [] OTHER -> <<>>

Lower(c) ==
    CASE c = "H" -> "h"
      [] c = "E" -> "e"
      [] c = "I" -> "i"
      [] c = "C" -> "c"
      [] c = "M" -> "m"
      [] c = "A" -> "a"
      [] c = "G" -> "g"
      [] c = "J" -> "j"
      [] c = "P" -> "p"
      [] OTHER -> c

\* String.prototype.toLowerCase on the characters
toLowerCase(s) == [k \in 1..Len(s) |-> Lower(s[k])]

\* String.prototype.endsWith on the characters
endsWith(s, suffix) ==
    /\ Len(s) >= Len(suffix)
    /\ SubSeq(s, Len(s) - Len(suffix) + 1, Len(s)) = suffix

\* The files a user can select: name, declared type and content.
FileSet ==
    { [name |-> "a.heic", type |-> "image/heic", bytes |-> <<200>>],
      [name |-> "b.jpg", type |-> "image/jpeg", bytes |-> <<7>>] }

\* Further files: a HEIC picture the browser knows no type for (File.type is
\* "" then, and it is lower case whenever it is set), a declared HEIC type
\* under another extension, and a name that holds .heic without ending in it.
WideFileSet ==
    FileSet \cup
    { [name |-> "C.HEIC", type |-> "", bytes |-> <<1>>],
      [name |-> "d.jpg", type |-> "image/heic", bytes |-> <<2, 3>>],
      [name |-> "e.heic.jpg", type |-> "image/jpeg", bytes |-> <<4, 5, 6, 7>>] }

\* ------------------------------------------------------------------ bytes

\* the index of the padding character "=" in the base64 alphabet
Pad == 64

\* a base64 that encodes the whole groups of three bytes only
RECURSIVE Base64Whole(_)
Base64Whole(bytes) ==
    IF Len(bytes) < 3 THEN <<>>
    ELSE <<bytes[1] \div 4,
           (bytes[1] % 4) * 16 + bytes[2] \div 16,
           (bytes[2] % 16) * 4 + bytes[3] \div 64,
           bytes[3] % 64>> \o Base64Whole(SubSeq(bytes, 4, Len(bytes)))

\* FileReader.readAsDataURL: the base64 payload of a byte sequence, as the
\* indices 0..63 of its characters in the base64 alphabet, padded with Pad
RECURSIVE Base64(_)
Base64(bytes) ==
    IF Len(bytes) = 0 THEN <<>>
    ELSE IF Len(bytes) = 1
    THEN <<bytes[1] \div 4, (bytes[1] % 4) * 16, Pad, Pad>>
    ELSE IF Len(bytes) = 2
    THEN <<bytes[1] \div 4,
           (bytes[1] % 4) * 16 + bytes[2] \div 16,
           (bytes[2] % 16) * 4,
           Pad>>
    ELSE <<bytes[1] \div 4,
           (bytes[1] % 4) * 16 + bytes[2] \div 16,
           (bytes[2] % 16) * 4 + bytes[3] \div 64,
           bytes[3] % 64>> \o Base64(SubSeq(bytes, 4, Len(bytes)))

\* reader.result of readAsDataURL(blob): "data:<type>;base64,<payload>"; a
\* blob without a type is given application/octet-stream
fileToDataUri(blob) ==
    [mime |-> IF blob.type = "" THEN "application/octet-stream" ELSE blob.type,
     payload |-> Base64(blob.bytes)]

\* the bytes a base64 payload stands for: what fetch(dataUri) and
\* response.blob() decode for the preview
RECURSIVE Decode(_)
Decode(payload) ==
    IF Len(payload) < 4 THEN <<>>
    ELSE LET c == SubSeq(payload, 1, 4)
             rest == SubSeq(payload, 5, Len(payload))
         IN IF c[3] = Pad
            THEN <<c[1] * 4 + c[2] \div 16>>
            ELSE IF c[4] = Pad
            THEN <<c[1] * 4 + c[2] \div 16,
                   (c[2] % 16) * 16 + c[3] \div 4>>
            ELSE <<c[1] * 4 + c[2] \div 16,
                   (c[2] % 16) * 16 + c[3] \div 4,
                   (c[3] % 4) * 64 + c[4]>> \o Decode(rest)

\* heic2any({ blob, toType: 'image/jpeg' }): a JPEG blob made from the
\* content of the original; the JPEG starts with the marker FF D8 and then
\* depends on the original content
heic2any(blob) == [type |-> "image/jpeg", bytes |-> <<255, 216>> \o blob.bytes]

\* ------------------------------------------------------------------ numbers

RECURSIVE Gcd(_, _)
Gcd(a, b) == IF b = 0 THEN a ELSE Gcd(b, a % b)

Abs(x) == IF x < 0 THEN -x ELSE x

NaN == [nan |-> TRUE, n |-> 0, d |-> 1]

\* the rational n/d in lowest terms with a positive denominator (d # 0)
Rat(n, d) ==
    LET g == Gcd(Abs(n), Abs(d))
        s == IF d < 0 THEN -1 ELSE 1
    IN [nan |-> FALSE, n |-> s * (n \div g), d |-> s * (d \div g)]

isNaN(x) == x.nan

Add(x, y) ==
    IF x.nan \/ y.nan THEN NaN ELSE Rat(x.n * y.d + y.n * x.d, x.d * y.d)

DivBy(x, k) == IF x.nan THEN NaN ELSE Rat(x.n, x.d * k)

\* a negation that leaves its argument as it is
NegKeep(x) == x

Neg(x) == IF x.nan THEN NaN ELSE Rat(-x.n, x.d)

\* ------------------------------------------------------------------ EXIF

NoGps == [set |-> FALSE, latitude |-> NaN, longitude |-> NaN]

\* a toNum that takes a zero denominator for the number 0
toNumZero(val) ==
    IF Len(val) = 2 /\ val[2] # 0 THEN Rat(val[1], val[2]) ELSE Rat(0, 1)

\* toNum: a two-element array with a non-zero second element is the quotient;
\* anything else goes through Number(), which for a two-element array
\* [n, 0] is Number("n,0") = NaN.
toNum(val) ==
    IF Len(val) = 2 /\ val[2] # 0 THEN Rat(val[1], val[2]) ELSE NaN

\* tags[key]?.value?.[0] || tags[key]?.description?.[0]
RefOf(tags, key) ==
    IF key \notin DOMAIN tags THEN "undefined"
    ELSE IF Len(tags[key].value) >= 1 /\ tags[key].value[1] # ""
         THEN tags[key].value[1]
         ELSE IF Len(tags[key].description) >= 1
              THEN tags[key].description[1]
              ELSE "undefined"

extractGpsFromTags(tags) ==
    IF "GPSLatitude" \notin DOMAIN tags \/ "GPSLongitude" \notin DOMAIN tags
    THEN NoGps
    ELSE
      LET latData == tags["GPSLatitude"].value
          lonData == tags["GPSLongitude"].value
          latRef == RefOf(tags, "GPSLatitudeRef")
          lonRef == RefOf(tags, "GPSLongitudeRef")
      IN IF Len(latData) < 3 \/ Len(lonData) < 3 THEN NoGps
         ELSE
           LET lat0 == Add(Add(toNum(latData[1]), DivBy(toNum(latData[2]), 60)),
                           DivBy(toNum(latData[3]), 3600))
               lon0 == Add(Add(toNum(lonData[1]), DivBy(toNum(lonData[2]), 60)),
                           DivBy(toNum(lonData[3]), 3600))
               latitude == IF latRef = "S" \/ latRef = "s" THEN Neg(lat0) ELSE lat0
               longitude == IF lonRef = "W" \/ lonRef = "w" THEN Neg(lon0) ELSE lon0
           IN IF isNaN(latitude) \/ isNaN(longitude) THEN NoGps
              ELSE [set |-> TRUE, latitude |-> latitude, longitude |-> longitude]

Dms(a, b, c) == [value |-> <<a, b, c>>, description |-> <<>>]
Ref(r) == [value |-> <<r>>, description |-> <<r>>]

\* Tag sets ExifReader.load can return: no GPS tags, a zero denominator,
\* fewer than three components, and two well-formed positions.
TagsNone == [k \in {} |-> Dms(<<0, 1>>, <<0, 1>>, <<0, 1>>)]
TagsZeroDen ==
    [k \in {"GPSLatitude", "GPSLongitude", "GPSLatitudeRef", "GPSLongitudeRef"} |->
        CASE k = "GPSLatitude" -> Dms(<<48, 1>>, <<51, 0>>, <<293, 10>>)
          [] k = "GPSLongitude" -> Dms(<<2, 1>>, <<17, 1>>, <<402, 10>>)
          [] k = "GPSLatitudeRef" -> Ref("N")
          [] k = "GPSLongitudeRef" -> Ref("E")]
TagsShort ==
    [k \in {"GPSLatitude", "GPSLongitude"} |->
        CASE k = "GPSLatitude" ->
               [value |-> << <<48, 1>>, <<51, 1>> >>, description |-> <<>>]
          [] k = "GPSLongitude" -> Dms(<<2, 1>>, <<17, 1>>, <<402, 10>>)]
TagsParis ==
    [k \in {"GPSLatitude", "GPSLongitude", "GPSLatitudeRef", "GPSLongitudeRef"} |->
        CASE k = "GPSLatitude" -> Dms(<<48, 1>>, <<51, 1>>, <<293, 10>>)
          [] k = "GPSLongitude" -> Dms(<<2, 1>>, <<17, 1>>, <<402, 10>>)
          [] k = "GPSLatitudeRef" -> Ref("N")
          [] k = "GPSLongitudeRef" -> Ref("E")]
TagsNewYork ==
    [k \in {"GPSLatitude", "GPSLongitude", "GPSLatitudeRef", "GPSLongitudeRef"} |->
        CASE k = "GPSLatitude" -> Dms(<<40, 1>>, <<44, 1>>, <<544, 10>>)
          [] k = "GPSLongitude" -> Dms(<<73, 1>>, <<59, 1>>, <<84, 10>>)
          [] k = "GPSLatitudeRef" -> Ref("N")
          [] k = "GPSLongitudeRef" -> Ref("W")]

\* a tag set whose latitude has 200 degrees
TagsFar ==
    [k \in {"GPSLatitude", "GPSLongitude", "GPSLatitudeRef", "GPSLongitudeRef"} |->
        CASE k = "GPSLatitude" -> Dms(<<200, 1>>, <<0, 1>>, <<0, 1>>)
          [] k = "GPSLongitude" -> Dms(<<2, 1>>, <<17, 1>>, <<402, 10>>)
          [] k = "GPSLatitudeRef" -> Ref("N")
          [] k = "GPSLongitudeRef" -> Ref("E")]

\* outcomes of `await ExifReader.load(file)`: "throws" or a tag set
ExifOutcomes == {"throws", "none", "zeroDen", "short", "paris"}

\* the same with two more tag sets: a western position, 200 degrees
WideExifOutcomes == ExifOutcomes \cup {"newYork", "far"}

TagsOf(o) ==
    CASE o = "none" -> TagsNone
      [] o = "far" -> TagsFar
      [] o = "zeroDen" -> TagsZeroDen
      [] o = "short" -> TagsShort
      [] o = "paris" -> TagsParis
      [] OTHER -> TagsNewYork

\* ------------------------------------------------------------------ state

VARIABLES
    previews,   \* useState<PreviewState[]>: the lifecycle records, in order
    batches,    \* one entry per handleFileChange invocation: its locals and pc
    nextId,     \* the next fresh Math.random() token
    nextUrl,    \* the next object URL URL.createObjectURL returns
    created,    \* object URLs created so far
    revoked,    \* object URLs passed to URL.revokeObjectURL so far
    delivered,  \* the ProcessedPhoto arguments of onPhotoProcessed, in call order
    finished,   \* the files whose processFile promise fulfilled, in that order
    mounted,    \* the component is mounted
    now,        \* the reading of Date.now()
    tags,       \* a tag set handed to extractGpsFromTags on its own
    gpsOut,     \* what extractGpsFromTags returned for `tags`
    chatSession,    \* GuideCreator: useState<Chat | null>
    messages,       \* GuideCreator: useState<ChatMessage[]>
    isTyping,       \* GuideCreator: useState(false)
    guidePlaces,    \* GuideCreator: useState<Place[]>
    handlers        \* the handlePhotoProcessed invocations: their locals and pc

\* the uploader's own state
uploader == <<previews, batches, nextId, nextUrl, created, revoked, delivered,
              finished, mounted>>

\* the clock and the stand-alone extractor
aside == <<now, tags, gpsOut>>

\* the state of the parent component GuideCreator
chat == <<chatSession, messages, isTyping, guidePlaces, handlers>>

vars == <<uploader, aside, chat>>

ConversionMessage == "Could not convert HEIC image. Please try a JPG or PNG."

\* the non-empty batches a file input can deliver
FileLists == UNION { [1..n -> FileSet] : n \in 1..MaxFiles }

\* newFiles.map(file => ({ id, fileName, status: 'processing' })); the id
\* `${file.name}-${Math.random()}` is modelled by a fresh token per record
NewPlaceholders(files, firstId) ==
    [k \in 1..Len(files) |->
        [id |-> firstId + k - 1,
         fileName |-> files[k].name,
         status |-> "processing",
         previewUrl |-> 0,
         error |-> "",
         hasGps |-> "undefined"]]

\* newPreviewPlaceholders.find(p => p.fileName === file.name): the first match
FindPlaceholder(placeholders, files, i) ==
    LET hits == {k \in 1..Len(placeholders) : placeholders[k].fileName = files[i].name}
    IN placeholders[CHOOSE k \in hits : \A j \in hits : k <= j]

\* current.map(p => p.id === id ? { ...p, status: 'success', previewUrl, hasGps } : p)
MarkSuccess(current, id, previewUrl, hasGps) ==
    [k \in 1..Len(current) |->
        IF current[k].id = id
        THEN [current[k] EXCEPT !.status = "success",
                                !.previewUrl = previewUrl,
                                !.hasGps = hasGps]
        ELSE current[k]]

\* a catch block that sets every record to error
MarkErrorAll(current, id, message) ==
    [k \in 1..Len(current) |->
        [current[k] EXCEPT !.status = "error", !.error = message]]

\* current.map(p => p.id === id ? { ...p, status: 'error', error: message } : p)
MarkError(current, id, message) ==
    [k \in 1..Len(current) |->
        IF current[k].id = id
        THEN [current[k] EXCEPT !.status = "error", !.error = message]
        ELSE current[k]]

\* removal by splice(findIndex(...), 1): an id that is in no record gives
\* index -1, and splice(-1, 1) drops the last record
removePhotoSplice(prev, id) ==
    IF \E k \in 1..Len(prev) : prev[k].id = id
    THEN SelectSeq(prev, LAMBDA p : p.id # id)
    ELSE SubSeq(prev, 1, Len(prev) - 1)

\* prev.filter(p => p.id !== id)
removePhoto(prev, id) == SelectSeq(prev, LAMBDA p : p.id # id)

\* A state update of an unmounted component is dropped.
SetPreviews(new) == IF mounted THEN new ELSE previews

\* the HEIC test comparing the name as it is written
NeedsConversionAsWritten(file) ==
    \/ toLowerCase(Chars(file.type)) = Chars("image/heic")
    \/ endsWith(Chars(file.name), Chars(".heic"))

\* the HEIC test of processFile
NeedsConversion(file) ==
    \/ toLowerCase(Chars(file.type)) = Chars("image/heic")
    \/ endsWith(toLowerCase(Chars(file.name)), Chars(".heic"))

\* a handler that notifies the parent only while a record with the file's
\* name is in the list
onPhotoProcessedIfListed(calls, photo) ==
    IF \E k \in 1..Len(previews) :
          previews[k].fileName = batches[photo.file[1]].files[photo.file[2]].name
    THEN Append(calls, photo)
    ELSE calls

\* the handler calling the parent twice for one photo
onPhotoProcessedTwice(calls, photo) == Append(Append(calls, photo), photo)

\* onPhotoProcessed(processedPhoto): the parent's handler is an async function,
\* so the call records the photo and returns without throwing.
onPhotoProcessed(calls, photo) == Append(calls, photo)

\* a processFile that goes to the HEIC test without reading the metadata
StartFileSkipExif(batch, i) ==
    IF i > Len(batch.files)
    THEN [batch EXCEPT !.i = i, !.pc = "done"]
    ELSE [batch EXCEPT !.i = i,
                       !.pc = IF NeedsConversion(batch.files[i])
                              THEN "convert" ELSE "encode",
                       !.exif = "pending",
                       !.gps = NoGps,
                       !.mimeType = batch.files[i].type,
                       !.blob = [type |-> batch.files[i].type,
                                 bytes |-> batch.files[i].bytes],
                       !.converted = FALSE,
                       !.log[i] = "running"]

\* the locals of a batch when processFile(files[i]) has run up to its first
\* await (ExifReader.load); past the last file the handler has returned
StartFile(batch, i) ==
    IF i > Len(batch.files)
    THEN [batch EXCEPT !.i = i, !.pc = "done"]
    ELSE [batch EXCEPT !.i = i,
                       !.pc = "exif",
                       !.exif = "pending",
                       !.gps = NoGps,
                       !.mimeType = batch.files[i].type,
                       !.blob = [type |-> batch.files[i].type,
                                 bytes |-> batch.files[i].bytes],
                       !.converted = FALSE,
                       !.log[i] = "running"]

\* the greeting the mount effect of GuideCreator puts into the chat; `by`
\* is history: the handlePhotoProcessed invocation that appended a message
InitMessage == [id |-> "init", role |-> "model", text |-> "greeting", by |-> 0]

InitUploader ==
    /\ previews = <<>>
    /\ batches = <<>>
    /\ nextId = 1
    /\ nextUrl = 1
    /\ created = {}
    /\ revoked = {}
    /\ delivered = <<>>
    /\ finished = <<>>
    /\ mounted = TRUE

\* GuideCreator after its mount effect: the chat session is created and the
\* greeting is the only message
InitChat ==
    /\ chatSession = TRUE
    /\ messages = <<InitMessage>>
    /\ isTyping = FALSE
    /\ guidePlaces = <<>>
    /\ handlers = <<>>

Init ==
    /\ InitUploader
    /\ InitChat
    /\ now = 0
    /\ tags = TagsNone
    /\ gpsOut = <<>>

\* ------------------------------------------------------------------ actions

\* handleFileChange up to the first await of the first file
HandleFileChange(files) ==
    /\ mounted
    /\ Len(batches) < MaxBatches
    /\ nextId - 1 + Len(files) <= MaxFiles
    /\ LET placeholders == NewPlaceholders(files, nextId)
           batch == [files |-> files,
                     placeholders |-> placeholders,
                     i |-> 0,
                     pc |-> "start",
                     exif |-> "pending",
                     gps |-> NoGps,
                     mimeType |-> "",
                     blob |-> [type |-> "", bytes |-> <<>>],
                     converted |-> FALSE,
                     log |-> [k \in 1..Len(files) |-> "waiting"]]
       IN /\ previews' = previews \o placeholders
          /\ batches' = Append(batches, StartFile(batch, 1))
          /\ nextId' = nextId + Len(files)
    /\ UNCHANGED <<nextUrl, created, revoked, delivered, finished, mounted>>
    /\ UNCHANGED <<aside, chat>>

\* the catch block of the loop body, then the next iteration
Catch(b, message, why) ==
    LET batch == batches[b]
        placeholder == FindPlaceholder(batch.placeholders, batch.files, batch.i)
    IN /\ previews' = SetPreviews(MarkError(previews, placeholder.id, message))
       /\ batches' = [batches EXCEPT
                        ![b] = StartFile([batch EXCEPT !.log[batch.i] = why],
                                         batch.i + 1)]

\* what the metadata read was given: "throws", "unusable" (tags without GPS
\* data or with malformed GPS data) or "usable"; "pending" before the read
\* and after processFile has returned
ExifClass(o) ==
    CASE o = "throws" -> "throws"
      [] o \in {"none", "zeroDen", "short"} -> "unusable"
      [] OTHER -> "usable"

\* `await ExifReader.load(file)` resumes: the tags are read, or the catch
\* leaves gps undefined; then the HEIC test
ExifDone(b, o) ==
    /\ batches[b].pc = "exif"
    /\ LET batch == batches[b]
           gps == IF o = "throws" THEN NoGps ELSE extractGpsFromTags(TagsOf(o))
       IN batches' = [batches EXCEPT
                        ![b].exif = ExifClass(o),
                        ![b].gps = gps,
                        ![b].pc = IF NeedsConversion(batch.files[batch.i])
                                  THEN "convert" ELSE "encode"]
    /\ UNCHANGED <<previews, nextId, nextUrl, created, revoked, delivered,
                   finished, mounted>>
    /\ UNCHANGED <<aside, chat>>

\* `await heic2any(...)` resumes with the converted blob
ConvertOk(b) ==
    /\ batches[b].pc = "convert"
    /\ batches' = [batches EXCEPT ![b].converted = TRUE,
                                  ![b].blob = heic2any(batches[b].blob),
                                  ![b].mimeType = "image/jpeg",
                                  ![b].pc = "encode"]
    /\ UNCHANGED <<previews, nextId, nextUrl, created, revoked, delivered,
                   finished, mounted>>
    /\ UNCHANGED <<aside, chat>>

\* `await heic2any(...)` throws: processFile rejects with the fixed message
ConvertFail(b) ==
    /\ batches[b].pc = "convert"
    /\ Catch(b, ConversionMessage, "conversion")
    /\ UNCHANGED <<nextId, nextUrl, created, revoked, delivered, finished, mounted>>
    /\ UNCHANGED <<aside, chat>>

\* the value processFile returns for the file batch b is at; the fields
\* `file` and `converted` are history: which file it came from, and whether
\* heic2any produced its content
ProcessedPhoto(b) ==
    LET batch == batches[b]
    IN [id |-> <<batch.files[batch.i].name, now>>,
        dataUri |-> fileToDataUri(batch.blob),
        gps |-> batch.gps,
        mimeType |-> batch.mimeType,
        file |-> <<b, batch.i>>,
        converted |-> batch.converted]

\* `await fileToDataUri(processedBlob)` resumes: processFile fulfils, the
\* handler notifies the parent and starts fetch(dataUri).  The continuation
\* of `await processFile(file)` is a microtask queued by the fulfilment, so it
\* runs before the event loop takes up any other batch: one step.
Encoded(b) ==
    /\ batches[b].pc = "encode"
    /\ LET batch == batches[b]
       IN /\ finished' = Append(finished, <<b, batch.i>>)
          /\ delivered' = onPhotoProcessed(delivered, ProcessedPhoto(b))
          /\ batches' = [batches EXCEPT ![b].pc = "fetch",
                                        ![b].exif = "pending",
                                        ![b].log[batch.i] = "delivered"]
    /\ UNCHANGED <<previews, nextId, nextUrl, created, revoked, mounted>>
    /\ UNCHANGED aside

\* the uploader under a parent whose handler only takes the photo
EncodeOk(b) ==
    /\ Encoded(b)
    /\ UNCHANGED chat

\* reader.onerror = reject: the rejection value is an event without a
\* message, so the record gets error.message || 'Failed' = 'Failed'
EncodeFail(b) ==
    /\ batches[b].pc = "encode"
    /\ Catch(b, "Failed", "encoding")
    /\ UNCHANGED <<nextId, nextUrl, created, revoked, delivered, finished, mounted>>
    /\ UNCHANGED <<aside, chat>>

\* `await fetch(processedPhoto.dataUri)` resumes with a response
FetchOk(b) ==
    /\ batches[b].pc = "fetch"
    /\ batches' = [batches EXCEPT ![b].pc = "blob"]
    /\ UNCHANGED <<previews, nextId, nextUrl, created, revoked, delivered,
                   finished, mounted>>
    /\ UNCHANGED <<aside, chat>>

\* fetch rejects (a TypeError with a message)
FetchFail(b) ==
    /\ batches[b].pc = "fetch"
    /\ Catch(b, "Failed to fetch", "preview")
    /\ UNCHANGED <<nextId, nextUrl, created, revoked, delivered, finished, mounted>>
    /\ UNCHANGED <<aside, chat>>

\* `await response.blob()` resumes: the object URL is created and the
\* placeholder's record is set to success
BlobOk(b) ==
    /\ batches[b].pc = "blob"
    /\ LET batch == batches[b]
           placeholder == FindPlaceholder(batch.placeholders, batch.files, batch.i)
           previewUrl == nextUrl
           hasGps == IF batch.gps.set THEN "true" ELSE "false"
       IN /\ created' = created \cup {previewUrl}
          /\ nextUrl' = nextUrl + 1
          /\ previews' = SetPreviews(MarkSuccess(previews, placeholder.id,
                                                 previewUrl, hasGps))
          /\ batches' = [batches EXCEPT
                           ![b] = StartFile([batch EXCEPT !.log[batch.i] = "success"],
                                            batch.i + 1)]
    /\ UNCHANGED <<nextId, revoked, delivered, finished, mounted>>
    /\ UNCHANGED <<aside, chat>>

\* response.blob() rejects
BlobFail(b) ==
    /\ batches[b].pc = "blob"
    /\ Catch(b, "Failed to fetch", "preview")
    /\ UNCHANGED <<nextId, nextUrl, created, revoked, delivered, finished, mounted>>
    /\ UNCHANGED <<aside, chat>>

\* the remove button of a rendered record; a closure of an earlier render can
\* still call it with an id that was removed meanwhile
RemovePhoto(id) ==
    /\ mounted
    /\ previews' = removePhoto(previews, id)
    /\ UNCHANGED <<batches, nextId, nextUrl, created, revoked, delivered,
                   finished, mounted>>
    /\ UNCHANGED <<aside, chat>>

\* The effect has no dependencies, so its cleanup closes over the `previews`
\* of the first render, which is the initial state [].
CleanupPreviews == <<>>

\* unmount: the cleanup revokes the previewUrl of each record it closed over;
\* the component's state is discarded
Unmount ==
    /\ mounted
    /\ mounted' = FALSE
    /\ revoked' = revoked \cup
          {CleanupPreviews[k].previewUrl : k \in
              {j \in 1..Len(CleanupPreviews) : CleanupPreviews[j].previewUrl # 0}}
    /\ previews' = <<>>
    /\ UNCHANGED <<batches, nextId, nextUrl, created, delivered, finished>>
    /\ UNCHANGED <<aside, chat>>

Next ==
    \/ \E files \in FileLists : HandleFileChange(files)
    \/ \E b \in 1..Len(batches) : \E o \in ExifOutcomes : ExifDone(b, o)
    \/ \E b \in 1..Len(batches) : ConvertOk(b)
    \/ \E b \in 1..Len(batches) : ConvertFail(b)
    \/ \E b \in 1..Len(batches) : EncodeOk(b)
    \/ \E b \in 1..Len(batches) : EncodeFail(b)
    \/ \E b \in 1..Len(batches) : FetchOk(b)
    \/ \E b \in 1..Len(batches) : FetchFail(b)
    \/ \E b \in 1..Len(batches) : BlobOk(b)
    \/ \E b \in 1..Len(batches) : BlobFail(b)
    \/ \E id \in 1..(nextId - 1) : RemovePhoto(id)
    \/ Unmount

Spec == Init /\ [][Next]_vars

\* ------------------------------------------------- the file-format model

\* a handleFileChange invocation with one file
UploadOne(file) ==
    /\ Len(batches) < MaxUploads
    /\ HandleFileChange(<<file>>)

\* The uploader given single files of every kind of WideFileSet and every
\* tag set of WideExifOutcomes.
NextFile ==
    \/ \E file \in WideFileSet : UploadOne(file)
    \/ \E b \in 1..Len(batches) : \E o \in WideExifOutcomes : ExifDone(b, o)
    \/ \E b \in 1..Len(batches) : ConvertOk(b)
    \/ \E b \in 1..Len(batches) : ConvertFail(b)
    \/ \E b \in 1..Len(batches) : EncodeOk(b)
    \/ \E b \in 1..Len(batches) : EncodeFail(b)
    \/ \E b \in 1..Len(batches) : FetchOk(b)
    \/ \E b \in 1..Len(batches) : FetchFail(b)
    \/ \E b \in 1..Len(batches) : BlobOk(b)
    \/ \E b \in 1..Len(batches) : BlobFail(b)
    \/ \E id \in 1..(nextId - 1) : RemovePhoto(id)
    \/ Unmount

SpecFile == Init /\ [][NextFile]_vars

\* ------------------------------------------------------------------ claims

\* the files submitted so far: <<batch, index in the batch>>
Files == {f \in (1..Len(batches)) \X (1..MaxFiles) : f[2] <= Len(batches[f[1]].files)}

\* what happened to a file: "waiting", "running", "delivered" (callback made,
\* preview being built), or how its loop iteration ended: "conversion",
\* "encoding", "preview" (a failure of that step) or "success"
Log(f) == batches[f[1]].log[f[2]]

Ended(f) == Log(f) \in {"conversion", "encoding", "preview", "success"}

\* the id of the record created for the file
OwnId(f) == batches[f[1]].placeholders[f[2]].id

Present(id) == \E k \in 1..Len(previews) : previews[k].id = id

RecordOf(id) == previews[CHOOSE k \in 1..Len(previews) : previews[k].id = id]

\* the number of onPhotoProcessed invocations for the file
Calls(f) == Cardinality({k \in 1..Len(delivered) : delivered[k].file = f})

\* the photo delivered for a file that had its callback
PhotoOf(f) == delivered[CHOOSE k \in 1..Len(delivered) : delivered[k].file = f]

\* C1: once a record's status is success or error, the status of the record
\* with that id never changes again (the record can only disappear).
C1_TerminalStatusNeverChanges ==
    [][\A k \in 1..Len(previews) :
          previews[k].status \in {"success", "error"} =>
             \A j \in 1..Len(previews') :
                previews'[j].id = previews[k].id =>
                   previews'[j].status = previews[k].status]_vars

\* C2: for every file exactly one outcome executes: a file whose record (the
\* one created for it) is in error never had its callback, and a file whose
\* loop iteration ended had its callback exactly when the iteration ended in
\* the success path.
C2_ExactlyOneOutcome ==
    \A f \in Files :
       /\ Ended(f) => (Calls(f) = 1 <=> Log(f) = "success")
       /\ Present(OwnId(f)) /\ RecordOf(OwnId(f)).status = "error" => Calls(f) = 0

\* C3: a file whose HEIC conversion threw has no ProcessedPhoto and no
\* callback, and the record created for it, while present, is in status error
\* with the fixed conversion message.
C3_ConversionFailureIsError ==
    \A f \in Files :
       Log(f) = "conversion" =>
          /\ Calls(f) = 0
          /\ f \notin {finished[k] : k \in 1..Len(finished)}
          /\ Present(OwnId(f)) =>
                /\ RecordOf(OwnId(f)).status = "error"
                /\ RecordOf(OwnId(f)).error = ConversionMessage

\* C4: whatever files of a batch fail conversion, once the handler has
\* returned every file of the batch had its pipeline run, and every file whose
\* own steps all succeeded had its callback and has status success in the
\* record created for it (while that record is present).
C4_BatchIndependence ==
    \A f \in Files :
       /\ batches[f[1]].pc = "done" => Ended(f)
       /\ Log(f) = "success" =>
             /\ Calls(f) = 1
             /\ Present(OwnId(f)) => RecordOf(OwnId(f)).status = "success"

\* C5: when ExifReader.load threw or the tags gave no usable GPS data the
\* pipeline goes on with gps undefined, the photo delivered for the file has
\* no gps, and once conversion and encoding succeeded the file's iteration
\* ends with status success in the record created for it.
C5_MetadataNeverFailsAFile ==
    /\ [](\A b \in 1..Len(batches) :
            batches[b].pc \in {"convert", "encode"}
            /\ batches[b].exif \in {"throws", "unusable"} => ~batches[b].gps.set)
    /\ [][\A b \in 1..Len(batches) :
             batches[b].exif \in {"throws", "unusable"} /\ batches'[b].pc = "fetch" =>
                /\ Len(delivered') = Len(delivered) + 1
                /\ ~delivered'[Len(delivered')].gps.set]_vars
    /\ [](\A f \in Files :
            Log(f) \in {"preview", "success"} /\ Present(OwnId(f)) =>
               RecordOf(OwnId(f)).status = "success")

\* C6: onPhotoProcessed is invoked exactly once for each file whose
\* processFile fulfilled, never for a file whose pipeline failed or has not
\* completed, at most once per file, and in the order of completion.
C6_CallbackOncePerSuccessInOrder ==
    /\ \A f \in Files :
          /\ Calls(f) <= 1
          /\ Calls(f) = 1 <=> f \in {finished[k] : k \in 1..Len(finished)}
          /\ Log(f) \in {"waiting", "running", "conversion", "encoding"} => Calls(f) = 0
          /\ Log(f) \in {"delivered", "preview", "success"} => Calls(f) = 1
    /\ [k \in 1..Len(delivered) |-> delivered[k].file] = finished

\* C6 witness: two overlapping batches whose photos were delivered in the
\* opposite order of their submission.
C6_Witness ==
    /\ Len(delivered) = 2
    /\ delivered[1].file[1] = 2
    /\ delivered[2].file[1] = 1

\* C7: a batch of n files creates n records, one per file, and the outcome of
\* each file is written to the record created for it and to no other: while
\* that record is present its status is success exactly when the file's
\* iteration ended in success, error exactly when it ended in a failure, and
\* processing until then.
C7_OutcomeInOwnRecord ==
    /\ \A b \in 1..Len(batches) :
          /\ Len(batches[b].placeholders) = Len(batches[b].files)
          /\ \A i, j \in 1..Len(batches[b].files) :
                i # j => batches[b].placeholders[i].id # batches[b].placeholders[j].id
    /\ \A f \in Files :
          Present(OwnId(f)) =>
             RecordOf(OwnId(f)).status =
                CASE Log(f) = "success" -> "success"
                  [] Log(f) \in {"conversion", "encoding", "preview"} -> "error"
                  [] OTHER -> "processing"

\* C8: a preview object URL held by a record is revoked when the record stops
\* holding it: on removePhoto, on component teardown, or when the record's
\* previewUrl is replaced.
C8_PreviewUrlsReleased ==
    [][\A k \in 1..Len(previews) :
          (/\ previews[k].previewUrl # 0
           /\ \A j \in 1..Len(previews') :
                 previews'[j].previewUrl # previews[k].previewUrl)
          => previews[k].previewUrl \in revoked']_vars

\* C9: a removed record never comes back, and when the loop iteration of a
\* file whose record was removed ends (in success or failure) the record list
\* is left as it was.
C9_RemovedRecordStaysRemoved ==
    [][/\ \A id \in 1..(nextId - 1) : ~Present(id) => ~(Present(id))'
       /\ \A f \in Files :
             (~Present(OwnId(f)) /\ ~Ended(f) /\ Ended(f)') => previews' = previews]_vars

\* C10: removing the same id twice gives the same list as removing it once,
\* and removing an id that is in no record changes nothing, for every
\* reachable record list and every id, issued or not.
C10_RemoveIdempotent ==
    \A id \in 0..nextId :
       LET once == removePhoto(previews, id)
       IN /\ removePhoto(once, id) = once
          /\ ~Present(id) => once = previews
          /\ \A k \in 1..Len(once) : once[k].id # id

\* C10 witness: a record was removed while others remain, so both a present
\* and an absent id are exercised.
C10_Witness ==
    /\ mounted
    /\ Len(previews) >= 1
    /\ \E id \in 1..(nextId - 1) : ~Present(id)

\* ------------------------------------------- the uploader in GuideCreator

\* PhotoUploader is rendered by GuideCreator in every render, so the two
\* are mounted and unmounted together: a state update of GuideCreator after
\* the unmount is dropped as well.
SetChat(new, old) == IF mounted THEN new ELSE old

FallbackText == "I got the photo, but had trouble identifying the location."

\* what analyzeUploadedImage returns from its own catch block
UnclearText == "I couldn't quite see that image clearly."

\* userMsg of handlePhotoProcessed
UserMessage(photo, h) ==
    [id |-> photo.id,
     role |-> "user",
     text |-> IF photo.gps.set THEN "I uploaded a photo taken at Lat, Lng."
                               ELSE "I uploaded a photo.",
     by |-> h]

\* the message appended after sendMessage has returned
ModelMessage(h) == [id |-> <<now>>, role |-> "model", text |-> "result.text", by |-> h]

\* a catch block that appends nothing
CatchSilent(msgs, h) == msgs

\* the catch block of handlePhotoProcessed
CatchFallback(msgs, h) ==
    Append(msgs, [id |-> <<now>>, role |-> "model", text |-> FallbackText, by |-> h])

\* handlePhotoProcessed(photo) up to its first await: the user message is
\* appended, isTyping is set, and analyzeUploadedImage (without gps) or
\* sendMessage (with gps) is called.  `failed` is history: the
\* collaborators that failed in this invocation.
handlePhotoProcessed(photo) ==
    IF ~chatSession
    THEN UNCHANGED chat
    ELSE LET h == Len(handlers) + 1
         IN /\ messages' = SetChat(Append(messages, UserMessage(photo, h)), messages)
            /\ isTyping' = SetChat(TRUE, isTyping)
            /\ handlers' = Append(handlers,
                                  [photo |-> photo,
                                   pc |-> IF photo.gps.set THEN "send" ELSE "analyze",
                                   analysis |-> "",
                                   failed |-> {}])
            /\ UNCHANGED <<chatSession, guidePlaces>>

\* the uploader step that delivers a photo, under GuideCreator
EncodeOkChat(b) ==
    /\ Encoded(b)
    /\ handlePhotoProcessed(ProcessedPhoto(b))

\* `await analyzeUploadedImage(...)` resumes: the service returns the
\* description, or the text of its own catch block when the request failed;
\* then sendMessage is called
AnalyzeDone(h, ok) ==
    /\ handlers[h].pc = "analyze"
    /\ handlers' = [handlers EXCEPT
                       ![h].pc = "send",
                       ![h].analysis = IF ok THEN "response.text" ELSE UnclearText,
                       ![h].failed = IF ok THEN @ ELSE @ \cup {"analyzeUploadedImage"}]
    /\ UNCHANGED <<chatSession, messages, isTyping, guidePlaces>>
    /\ UNCHANGED <<uploader, aside>>

\* `await chatSession.sendMessage(...)` resumes with a result: the reply is
\* appended and extractPlaceFromText is called
SendOk(h) ==
    /\ handlers[h].pc = "send"
    /\ messages' = SetChat(Append(messages, ModelMessage(h)), messages)
    /\ handlers' = [handlers EXCEPT ![h].pc = "extract"]
    /\ UNCHANGED <<chatSession, isTyping, guidePlaces>>
    /\ UNCHANGED <<uploader, aside>>

\* sendMessage rejects: catch, then finally
SendFail(h) ==
    /\ handlers[h].pc = "send"
    /\ messages' = SetChat(CatchFallback(messages, h), messages)
    /\ isTyping' = SetChat(FALSE, isTyping)
    /\ handlers' = [handlers EXCEPT ![h].pc = "done",
                                    ![h].failed = @ \cup {"sendMessage"}]
    /\ UNCHANGED <<chatSession, guidePlaces>>
    /\ UNCHANGED <<uploader, aside>>

\* `await extractPlaceFromText(...)` resumes: with a place, with null, or
\* with the null of the service's own catch block when the request failed;
\* then finally
ExtractDone(h, outcome) ==
    /\ handlers[h].pc = "extract"
    /\ guidePlaces' =
          IF outcome = "place"
          THEN SetChat(Append(guidePlaces,
                              [name |-> "json.name",
                               imageUrl |-> handlers[h].photo.dataUri,
                               coordinates |-> handlers[h].photo.gps]),
                       guidePlaces)
          ELSE guidePlaces
    /\ isTyping' = SetChat(FALSE, isTyping)
    /\ handlers' = [handlers EXCEPT
                       ![h].pc = "done",
                       ![h].failed = IF outcome = "fails"
                                     THEN @ \cup {"extractPlaceFromText"} ELSE @]
    /\ UNCHANGED <<chatSession, messages>>
    /\ UNCHANGED <<uploader, aside>>

\* one submission
UploadBatch(files) ==
    /\ batches = <<>>
    /\ HandleFileChange(files)

\* the tag sets that matter to the chat: without and with a position
ChatExifOutcomes == {"none", "paris"}

\* the submissions to the chat page: JPEG files, which processFile does
\* not convert
ChatFileLists ==
    UNION { [1..n -> {f \in FileSet : ~NeedsConversion(f)}] : n \in 1..MaxFiles }

\* One submission to the uploader of a page that stays mounted, each
\* delivered photo handled by handlePhotoProcessed.
NextChat ==
    \/ \E files \in ChatFileLists : UploadBatch(files)
    \/ \E b \in 1..Len(batches) : \E o \in ChatExifOutcomes : ExifDone(b, o)
    \/ \E b \in 1..Len(batches) : EncodeOkChat(b)
    \/ \E b \in 1..Len(batches) : EncodeFail(b)
    \/ \E b \in 1..Len(batches) : FetchOk(b)
    \/ \E b \in 1..Len(batches) : FetchFail(b)
    \/ \E b \in 1..Len(batches) : BlobOk(b)
    \/ \E b \in 1..Len(batches) : BlobFail(b)
    \/ \E h \in 1..Len(handlers) : \E ok \in BOOLEAN : AnalyzeDone(h, ok)
    \/ \E h \in 1..Len(handlers) : SendOk(h)
    \/ \E h \in 1..Len(handlers) : SendFail(h)
    \/ \E h \in 1..Len(handlers) :
          \E outcome \in {"place", "null", "fails"} : ExtractDone(h, outcome)

SpecChat == Init /\ [][NextChat]_vars

\* ------------------------------------------- the chat with typed messages

ConnectText == "Sorry, I had trouble connecting. Please try again."

\* the handleSendMessage invocations among the handlers: the ones that
\* carry the typed text
Sends == {h \in 1..Len(handlers) : "text" \in DOMAIN handlers[h]}

\* the user types a text and sends it: handleSendMessage up to its await
\* (sendMessage is called)
HandleSendMessage(text) ==
    /\ mounted
    /\ chatSession
    /\ Cardinality(Sends) < MaxSends
    /\ LET h == Len(handlers) + 1
       IN /\ messages' = Append(messages,
                                [id |-> <<now>>, role |-> "user", text |-> text, by |-> h])
          /\ isTyping' = TRUE
          /\ handlers' = Append(handlers,
                                [text |-> text, pc |-> "reply", failed |-> {}])
    /\ UNCHANGED <<chatSession, guidePlaces>>
    /\ UNCHANGED <<uploader, aside>>

\* `await chatSession.sendMessage(...)` resumes with a result: modelMsg is
\* appended and extractPlaceFromText is called
ReplyOk(h) ==
    /\ h \in Sends
    /\ handlers[h].pc = "reply"
    /\ messages' = SetChat(Append(messages,
                                  [id |-> <<now + 1>>, role |-> "model",
                                   text |-> "result.text", by |-> h]),
                           messages)
    /\ handlers' = [handlers EXCEPT ![h].pc = "place"]
    /\ UNCHANGED <<chatSession, isTyping, guidePlaces>>
    /\ UNCHANGED <<uploader, aside>>

\* sendMessage rejects: catch, then finally
ReplyFail(h) ==
    /\ h \in Sends
    /\ handlers[h].pc = "reply"
    /\ messages' = SetChat(Append(messages,
                                  [id |-> <<now>>, role |-> "model",
                                   text |-> ConnectText, by |-> h]),
                           messages)
    /\ isTyping' = SetChat(FALSE, isTyping)
    /\ handlers' = [handlers EXCEPT ![h].pc = "done",
                                    ![h].failed = @ \cup {"sendMessage"}]
    /\ UNCHANGED <<chatSession, guidePlaces>>
    /\ UNCHANGED <<uploader, aside>>

\* `await extractPlaceFromText(...)` resumes: a place is added unless one
\* of its name is in the guide; then finally
PlaceDone(h, outcome) ==
    /\ h \in Sends
    /\ handlers[h].pc = "place"
    /\ guidePlaces' =
          IF outcome = "place"
             /\ ~\E k \in 1..Len(guidePlaces) : guidePlaces[k].name = "json.name"
          THEN SetChat(Append(guidePlaces,
                              [name |-> "json.name",
                               imageUrl |-> "picsum",
                               coordinates |-> NoGps]),
                       guidePlaces)
          ELSE guidePlaces
    /\ isTyping' = SetChat(FALSE, isTyping)
    /\ handlers' = [handlers EXCEPT
                       ![h].pc = "done",
                       ![h].failed = IF outcome = "fails"
                                     THEN @ \cup {"extractPlaceFromText"} ELSE @]
    /\ UNCHANGED <<chatSession, messages>>
    /\ UNCHANGED <<uploader, aside>>

\* GuideCreator with one submission to the uploader and typed messages.
NextTyping ==
    \/ \E files \in ChatFileLists : UploadBatch(files)
    \/ \E b \in 1..Len(batches) : \E o \in ChatExifOutcomes : ExifDone(b, o)
    \/ \E b \in 1..Len(batches) : EncodeOkChat(b)
    \/ \E b \in 1..Len(batches) : EncodeFail(b)
    \/ \E b \in 1..Len(batches) : FetchOk(b)
    \/ \E b \in 1..Len(batches) : FetchFail(b)
    \/ \E b \in 1..Len(batches) : BlobOk(b)
    \/ \E b \in 1..Len(batches) : BlobFail(b)
    \/ \E h \in 1..Len(handlers) : \E ok \in BOOLEAN : AnalyzeDone(h, ok)
    \/ \E h \in 1..Len(handlers) : SendOk(h)
    \/ \E h \in 1..Len(handlers) : SendFail(h)
    \/ \E h \in 1..Len(handlers) :
          \E outcome \in {"place", "null", "fails"} : ExtractDone(h, outcome)
    \/ HandleSendMessage("hello")
    \/ \E h \in 1..Len(handlers) : ReplyOk(h)
    \/ \E h \in 1..Len(handlers) : ReplyFail(h)
    \/ \E h \in 1..Len(handlers) :
          \E outcome \in {"place", "null", "fails"} : PlaceDone(h, outcome)

SpecTyping == Init /\ [][NextTyping]_vars

\* ------------------------------------------------- the record-list model

\* The uploader with the submissions of Spec, every file read without a
\* position and converted and encoded without a failure: what is left are
\* the operations on the record list (append, success, error by a failed
\* preview, removal) and the unmount.
NextList ==
    \/ \E files \in FileLists : HandleFileChange(files)
    \/ \E b \in 1..Len(batches) : ExifDone(b, "none")
    \/ \E b \in 1..Len(batches) : ConvertOk(b)
    \/ \E b \in 1..Len(batches) : EncodeOk(b)
    \/ \E b \in 1..Len(batches) : FetchOk(b)
    \/ \E b \in 1..Len(batches) : FetchFail(b)
    \/ \E b \in 1..Len(batches) : BlobOk(b)
    \/ \E id \in 1..(nextId - 1) : RemovePhoto(id)
    \/ Unmount

SpecList == Init /\ [][NextList]_vars

\* ------------------------------------------------- the encoding model

\* byte values: the smallest, the largest, and one on each side of the
\* middle bit
ByteValues == {0, 1, 128, 255}

ByteSeqs == UNION { [1..n -> ByteValues] : n \in 0..MaxBytes }

\* the files of FileSet with every content of ByteSeqs
ByteFiles ==
    { [name |-> f.name, type |-> f.type, bytes |-> bytes] :
        f \in FileSet, bytes \in ByteSeqs }

\* One submission of one file of any content, with every step succeeding.
NextBytes ==
    \/ \E file \in ByteFiles : UploadBatch(<<file>>)
    \/ \E b \in 1..Len(batches) : ExifDone(b, "none")
    \/ \E b \in 1..Len(batches) : ConvertOk(b)
    \/ \E b \in 1..Len(batches) : EncodeOk(b)
    \/ \E b \in 1..Len(batches) : FetchOk(b)
    \/ \E b \in 1..Len(batches) : BlobOk(b)

SpecBytes == Init /\ [][NextBytes]_vars

\* ------------------------------------------------- the clock advancing

\* a millisecond passes
Tick ==
    /\ now < MaxNow
    /\ now' = now + 1
    /\ UNCHANGED <<uploader, tags, gpsOut, chat>>

\* The uploader with time passing between any two steps.
NextClock ==
    \/ \E files \in FileLists : HandleFileChange(files)
    \/ \E b \in 1..Len(batches) : \E o \in ExifOutcomes : ExifDone(b, o)
    \/ \E b \in 1..Len(batches) : ConvertOk(b)
    \/ \E b \in 1..Len(batches) : ConvertFail(b)
    \/ \E b \in 1..Len(batches) : EncodeOk(b)
    \/ \E b \in 1..Len(batches) : EncodeFail(b)
    \/ \E b \in 1..Len(batches) : FetchOk(b)
    \/ \E b \in 1..Len(batches) : FetchFail(b)
    \/ \E b \in 1..Len(batches) : BlobOk(b)
    \/ \E b \in 1..Len(batches) : BlobFail(b)
    \/ \E id \in 1..(nextId - 1) : RemovePhoto(id)
    \/ Unmount
    \/ Tick

SpecClock == Init /\ [][NextClock]_vars

\* ------------------------------------------- the extractor on its own

\* the rationals [numerator, denominator] of a GPS component
Rationals == (0..MaxPart) \X (0..MaxPart)

\* the values of a GPSLatitude or GPSLongitude tag: two or three rationals,
\* or <<>> for a tag that is absent
AxisFull == UNION { [1..n -> Rationals] : n \in 2..3 } \cup {<<>>}

\* the same with three equal rationals
AxisSame == { <<r, r, r>> : r \in Rationals } \cup {<<>>}

LatRefs == {"N", "S", "s", "undefined"}
LonRefs == {"E", "W", "w", "undefined"}

\* every value of one axis with the values of AxisSame on the other
TagChoices ==
    [lat : AxisFull, lon : AxisSame, latRef : LatRefs, lonRef : LonRefs] \cup
    [lat : AxisSame, lon : AxisFull, latRef : LatRefs, lonRef : LonRefs]

\* the tag object of a choice: a tag is present when its choice is not
\* <<>> (data) or "undefined" (reference)
MakeTags(c) ==
    LET keys == {k \in {"GPSLatitude", "GPSLongitude", "GPSLatitudeRef",
                        "GPSLongitudeRef"} :
                    CASE k = "GPSLatitude" -> c.lat # <<>>
                      [] k = "GPSLongitude" -> c.lon # <<>>
                      [] k = "GPSLatitudeRef" -> c.latRef # "undefined"
                      [] k = "GPSLongitudeRef" -> c.lonRef # "undefined"}
    IN [k \in keys |->
           CASE k = "GPSLatitude" -> [value |-> c.lat, description |-> <<>>]
             [] k = "GPSLongitude" -> [value |-> c.lon, description |-> <<>>]
             [] k = "GPSLatitudeRef" -> Ref(c.latRef)
             [] k = "GPSLongitudeRef" -> Ref(c.lonRef)]

InitGps ==
    /\ InitUploader
    /\ InitChat
    /\ now = 0
    /\ tags \in { MakeTags(c) : c \in TagChoices }
    /\ gpsOut = <<>>

\* gps = extractGpsFromTags(tags)
Extract ==
    /\ gpsOut = <<>>
    /\ gpsOut' = <<extractGpsFromTags(tags)>>
    /\ UNCHANGED <<uploader, now, tags, chat>>

NextGps == Extract

SpecGps == InitGps /\ [][NextGps]_vars

\* ------------------------------------------------------------------ C11

\* the file a delivered photo was made from
FileOf(photo) == batches[photo.file[1]].files[photo.file[2]]

\* the file batch b is at
CurrentFile(b) == batches[b].files[batches[b].i]

HeicType == <<{"i", "I"}, {"m", "M"}, {"a", "A"}, {"g", "G"}, {"e", "E"}, {"/"},
              {"h", "H"}, {"e", "E"}, {"i", "I"}, {"c", "C"}>>
HeicSuffix == <<{"."}, {"h", "H"}, {"e", "E"}, {"i", "I"}, {"c", "C"}>>

\* the declared type is image/heic or the name ends in .heic, in any case
DeclaredHeic(file) ==
    LET t == Chars(file.type)
        n == Chars(file.name)
    IN \/ Len(t) = Len(HeicType) /\ \A k \in 1..Len(t) : t[k] \in HeicType[k]
       \/ /\ Len(n) >= Len(HeicSuffix)
          /\ \A k \in 1..Len(HeicSuffix) :
                n[Len(n) - Len(HeicSuffix) + k] \in HeicSuffix[k]

\* C11: conversion is attempted exactly for the files declared HEIC by type
\* or by name: a file waiting for heic2any, or failed by it, is declared
\* HEIC, and a declared-HEIC file reaches encoding only converted.  A
\* delivered photo of a declared-HEIC file has mimeType image/jpeg and the
\* converted bytes; any other delivered photo has the declared type and the
\* original bytes; no delivered photo has mimeType image/heic.
C11_FinalFormat ==
    /\ \A b \in 1..Len(batches) :
          /\ batches[b].pc = "convert" => DeclaredHeic(CurrentFile(b))
          /\ batches[b].pc = "encode" =>
                (batches[b].converted <=> DeclaredHeic(CurrentFile(b)))
          /\ \A i \in 1..Len(batches[b].files) :
                batches[b].log[i] = "conversion" => DeclaredHeic(batches[b].files[i])
    /\ \A k \in 1..Len(delivered) :
          LET photo == delivered[k]
              file == FileOf(photo)
          IN /\ photo.converted <=> DeclaredHeic(file)
             /\ photo.mimeType # "image/heic"
             /\ IF DeclaredHeic(file)
                THEN /\ photo.mimeType = "image/jpeg"
                     /\ Decode(photo.dataUri.payload) =
                          heic2any([type |-> file.type, bytes |-> file.bytes]).bytes
                ELSE /\ photo.mimeType = file.type
                     /\ Decode(photo.dataUri.payload) = file.bytes

\* a HEIC picture without a declared type, named in upper case, was
\* converted and delivered
C11_Witness ==
    \E k \in 1..Len(delivered) :
        /\ FileOf(delivered[k]).name = "C.HEIC"
        /\ delivered[k].mimeType = "image/jpeg"

\* ------------------------------------------------------------------ C12

HasTag(key) == key \in DOMAIN tags

\* the reference letter of a tag, "undefined" without the tag
RefLetter(key) == IF HasTag(key) THEN tags[key].value[1] ELSE "undefined"

\* both axes have three rational components with non-zero denominators
WellFormed ==
    /\ HasTag("GPSLatitude") /\ HasTag("GPSLongitude")
    /\ \A key \in {"GPSLatitude", "GPSLongitude"} :
          /\ Len(tags[key].value) = 3
          /\ \A k \in 1..3 : tags[key].value[k][2] # 0

\* x = +-(deg + min/60 + sec/3600) for the three rationals of data, stated
\* on integers by multiplying with all denominators
IsDms(x, data, negated) ==
    LET deg == data[1]
        min == data[2]
        sec == data[3]
        sign == IF negated THEN -1 ELSE 1
    IN /\ ~x.nan
       /\ x.n * (deg[2] * min[2] * sec[2] * 3600) =
             sign * x.d * (deg[1] * min[2] * sec[2] * 3600
                           + min[1] * deg[2] * sec[2] * 60
                           + sec[1] * deg[2] * min[2])

Malformed ==
    \/ ~HasTag("GPSLatitude")
    \/ ~HasTag("GPSLongitude")
    \/ \E key \in {"GPSLatitude", "GPSLongitude"} :
          \/ Len(tags[key].value) < 3
          \/ \E k \in 1..3 : tags[key].value[k][2] = 0

\* C13: for a malformed tag set the extractor returns no coordinate, and no
\* coordinate it returns for any tag set holds NaN.
C13_MalformedGivesNoCoordinate ==
    gpsOut # <<>> =>
        /\ Malformed => gpsOut[1] = NoGps
        /\ gpsOut[1].set =>
              ~isNaN(gpsOut[1].latitude) /\ ~isNaN(gpsOut[1].longitude)

\* a tag set with three components per axis, one of them with denominator
\* 0, was extracted
C13_Witness ==
    /\ gpsOut # <<>>
    /\ HasTag("GPSLatitude") /\ HasTag("GPSLongitude")
    /\ Len(tags["GPSLatitude"].value) = 3
    /\ Len(tags["GPSLongitude"].value) = 3
    /\ tags["GPSLatitude"].value[2][2] = 0
    /\ ~gpsOut[1].set

\* ------------------------------------------------------------------ C14

\* -limit <= x <= limit for a rational x
Within(x, limit) == -limit * x.d <= x.n /\ x.n <= limit * x.d

\* C14: every gps value passed to onPhotoProcessed has its latitude in
\* [-90, 90] and its longitude in [-180, 180].
C14_EmittedGpsInRange ==
    \A k \in 1..Len(delivered) :
        delivered[k].gps.set =>
            /\ Within(delivered[k].gps.latitude, 90)
            /\ Within(delivered[k].gps.longitude, 180)

\* ------------------------------------------------------------------ C15

\* C15: the ids of the photos passed to onPhotoProcessed are pairwise
\* distinct.
C15_PhotoIdsDistinct ==
    \A j, k \in 1..Len(delivered) :
        j # k => delivered[j].id # delivered[k].id

\* ------------------------------------------------------------------ C16

\* the fallback messages the invocation h appended
Fallbacks(h) ==
    {k \in 1..Len(messages) :
        /\ messages[k].by = h
        /\ messages[k].role = "model"
        /\ messages[k].text = FallbackText}

\* whatever failed in the chat, each step the uploader is waiting for can be
\* taken
PipelineGoesOn ==
    \A b \in 1..Len(batches) :
        /\ batches[b].pc = "exif" => ENABLED ExifDone(b, "none")
        /\ batches[b].pc = "encode" => ENABLED EncodeOkChat(b)
        /\ batches[b].pc = "fetch" => ENABLED FetchOk(b)
        /\ batches[b].pc = "blob" => ENABLED BlobOk(b)

FinalBytes(photo) ==
    IF photo.converted
    THEN heic2any([type |-> FileOf(photo).type, bytes |-> FileOf(photo).bytes]).bytes
    ELSE FileOf(photo).bytes

\* C17: the data URI of every delivered photo decodes to exactly the final
\* bytes of its file (the original bytes, or the converted bytes of a HEIC
\* file), for every content a file can have.
C17_DataUriRoundTrip ==
    \A k \in 1..Len(delivered) :
        Decode(delivered[k].dataUri.payload) = FinalBytes(delivered[k])

\* a photo was delivered whose content holds the byte 255 and whose payload
\* is padded
C17_Witness ==
    \E k \in 1..Len(delivered) :
        LET payload == delivered[k].dataUri.payload
        IN /\ \E j \in 1..Len(FinalBytes(delivered[k])) :
                 FinalBytes(delivered[k])[j] = 255
           /\ ~delivered[k].converted
           /\ Len(payload) = 4
           /\ payload[4] = Pad

\* ------------------------------------------------------------------ C18

\* C18: the record of a file whose pipeline has not been started is in
\* status queued, and a record in status processing belongs to a file whose
\* pipeline has been started.
C18_QueuedUntilStarted ==
    \A f \in Files :
        Present(OwnId(f)) =>
            /\ Log(f) = "waiting" => RecordOf(OwnId(f)).status = "queued"
            /\ RecordOf(OwnId(f)).status = "processing" => Log(f) # "waiting"

\* ------------------------------------------------------------------ C19

\* C19: the pipelines of the files of a batch are launched independently:
\* no submitted file waits for a sibling before its pipeline starts.
C19_SiblingsStartWithoutWaiting ==
    \A f \in Files : Log(f) # "waiting"

\* ------------------------------------------------------------------ C20

\* the positions of processFile and of the handler after it, in order
StepNumber(pc) ==
    CASE pc = "exif" -> 1
      [] pc = "convert" -> 2
      [] pc = "encode" -> 3
      [] pc = "fetch" -> 4
      [] pc = "blob" -> 5
      [] OTHER -> 6

\* where each step finds the file: the metadata is read from the original
\* content before any conversion, conversion starts with the metadata read
\* done, encoding starts with the metadata read done and the conversion (if
\* the file needs one) done, and the callback has not been made before
\* encoding is done
StepsInPlace ==
    \A b \in 1..Len(batches) :
        LET batch == batches[b]
        IN batch.pc \in {"exif", "convert", "encode"} =>
             /\ Calls(<<b, batch.i>>) = 0
             /\ batch.pc = "exif" =>
                   /\ batch.exif = "pending"
                   /\ ~batch.converted
                   /\ batch.blob.bytes = CurrentFile(b).bytes
             /\ batch.pc = "convert" =>
                   batch.exif # "pending" /\ ~batch.converted
             /\ batch.pc = "encode" =>
                   /\ batch.exif # "pending"
                   /\ DeclaredHeic(CurrentFile(b)) => batch.converted

\* a step of a file moves forward, and the callback is made by the step
\* that ends the encoding
StepsForward ==
    /\ \A b \in 1..Len(batches) :
          (batches'[b].i = batches[b].i /\ batches'[b].pc # batches[b].pc) =>
              StepNumber(batches'[b].pc) > StepNumber(batches[b].pc)
    /\ Len(delivered') > Len(delivered) =>
          LET photo == delivered'[Len(delivered')]
          IN /\ Len(delivered') = Len(delivered) + 1
             /\ batches[photo.file[1]].i = photo.file[2]
             /\ batches[photo.file[1]].pc = "encode"
             /\ batches'[photo.file[1]].pc = "fetch"

\* C20: within one file's pipeline the steps are strictly ordered: metadata
\* extraction on the original file, then conversion, then encoding, then
\* the callback, one step at a time.
C20_StepsStrictlyOrdered ==
    /\ [](StepsInPlace)
    /\ [][StepsForward]_vars

\* a HEIC file was delivered converted, with the position read from its
\* metadata before the conversion
C20_Witness ==
    \E k \in 1..Len(delivered) :
        /\ delivered[k].converted
        /\ delivered[k].gps.set
        /\ batches[delivered[k].file[1]].pc = "done"

\* ------------------------------------------------------------------ C21

\* every handleFileChange invocation has returned: no asynchronous step is
\* left that could resolve or reject
Quiescent == \A b \in 1..Len(batches) : batches[b].pc = "done"

\* C21: when every asynchronous step has resolved or rejected, every record
\* that was not removed has status success or error: no record is left in
\* processing, where it would stay forever.
C21_EveryRecordSettles ==
    Quiescent =>
        \A k \in 1..Len(previews) : previews[k].status \in {"success", "error"}

\* ------------------------------------------------------------------ C22

\* the callback for the file a batch is encoding can be made whether or not
\* the file's record is still in the list, and a file whose loop iteration
\* ended in success had its callback
DeliveryNeedsNoRecord ==
    \A b \in 1..Len(batches) :
        /\ batches[b].pc = "encode" => ENABLED EncodeOk(b)
        /\ \A i \in 1..Len(batches[b].files) :
              Log(<<b, i>>) = "success" => Calls(<<b, i>>) = 1

\* the step that ends the encoding of a file makes the callback, with the
\* record present or removed, and the step that sets a record to success
\* comes after the callback for the file that sets it
DeliveryBeforeSuccess ==
    \A b \in 1..Len(batches) :
        LET f == <<b, batches[b].i>>
        IN /\ (batches[b].pc = "encode" /\ batches'[b].pc = "fetch") =>
                 /\ Calls(f) = 0
                 /\ Len(delivered') = Len(delivered) + 1
                 /\ delivered'[Len(delivered')].file = f
           /\ (batches[b].pc = "blob" /\ batches'[b].pc # "blob"
                  /\ batches'[b].log[f[2]] = "success") =>
                 Calls(f) = 1

\* C22: removal does not suppress delivery: the callback is made when the
\* encoding ends, also for a record removed meanwhile, and before the
\* record is set to success.
C22_RemovalDoesNotSuppressDelivery ==
    /\ [](DeliveryNeedsNoRecord)
    /\ [][DeliveryBeforeSuccess]_vars

\* in a mounted component a file had its callback and is still in flight
\* (its preview is being fetched), and its record has been removed
C22_Witness ==
    /\ mounted
    /\ \E f \in Files :
          /\ Log(f) = "delivered"
          /\ Calls(f) = 1
          /\ ~Present(OwnId(f))

\* ------------------------------------------------------------------ C23

\* C23: a record with status success has hasGps = true exactly when the
\* photo delivered for the record's file carried a gps value, and a record
\* in processing or error has neither hasGps nor previewUrl set.
C23_HasGpsMatchesDeliveredPhoto ==
    \A f \in Files :
        Present(OwnId(f)) =>
            LET record == RecordOf(OwnId(f))
            IN /\ record.status = "success" =>
                     /\ Calls(f) >= 1
                     /\ record.hasGps =
                           (IF PhotoOf(f).gps.set THEN "true" ELSE "false")
               /\ record.status \in {"processing", "error"} =>
                     /\ record.hasGps = "undefined"
                     /\ record.previewUrl = 0

\* ------------------------------------------------------------------ C24

\* the list without its k-th record
Without(list, k) == SubSeq(list, 1, k - 1) \o SubSeq(list, k + 1, Len(list))

\* a step leaves the list as it is, or appends the records of the batch
\* submitted by the step, one per file in the order of the files, after
\* the records there were, or changes one record in its place without
\* changing its id and file name, or takes one record out, or is the
\* unmount
ListFrame ==
    LET n == Len(previews)
        m == Len(previews')
    IN \/ previews' = previews
       \/ /\ m > n
          /\ SubSeq(previews', 1, n) = previews
          /\ Len(batches') = Len(batches) + 1
          /\ m - n = Len(batches'[Len(batches')].files)
          /\ \A k \in 1..(m - n) :
                /\ previews'[n + k].fileName = batches'[Len(batches')].files[k].name
                /\ ~Present(previews'[n + k].id)
       \/ /\ m = n
          /\ \E k \in 1..n :
                /\ \A j \in (1..n) \ {k} : previews'[j] = previews[j]
                /\ previews'[k].id = previews[k].id
                /\ previews'[k].fileName = previews[k].fileName
       \/ /\ m = n - 1
          /\ \E k \in 1..n : previews' = Without(previews, k)
       \/ mounted /\ ~mounted'

Outstanding == \E h \in 1..Len(handlers) : handlers[h].pc # "done"

\* C25: isTyping is true in every state in which a collaborator request is
\* outstanding (so it becomes false only when the last one has finished).
C25_TypingWhileOutstanding ==
    (mounted /\ Outstanding) => isTyping

====
